---------------------------- MODULE Spec2Model ----------------------------
(***************************************************************************)
(* A state-machine model of the useGeminiLive hook (src/unnamed/part_003): *)
(* the voice session that owns a WebSocket transport, a PCM player and a   *)
(* microphone capture, and of the game store                               *)
(* (src/src/store/gameStore.ts) that holds the position and the moves.     *)
(*                                                                         *)
(* Every handler of the hook is one action.  An `await` inside a handler   *)
(* splits it into the step before and the step after the await, because    *)
(* other handlers run in between.  The WebSocket, the AudioContext and     *)
(* getUserMedia are the environment: they deliver open / message / error / *)
(* close events, resolve or reject promises, and nothing else.             *)
(*                                                                         *)
(* React state (isConnected, isConnecting, ...) is modelled as updated at  *)
(* the moment the setter is called: a caller always uses the callbacks of  *)
(* the latest render.                                                      *)
(***************************************************************************)
EXTENDS Integers, Sequences, FiniteSets, TLC

(***************************************************************************)
(* Bounds of the model.                                                    *)
(***************************************************************************)
\* Spec: connect() calls whose transport (or pending promise) is alive at once
MaxLive == 1
\* SpecConn: the same, where an old transport races a new one
MaxRace == 2
\* MicrophoneCapture objects alive at once
MaxMic == 1
\* SpecMic: the same, where a second startListening meets the first
MaxCaptures == 2
\* SpecAudio: buffers the player schedules, ticks of its clock, and the
\* longest buffer, in ticks
MaxSources == 4
MaxTime == 3
MaxDuration == 2
\* SpecCodec: samples in a capture block
MaxBlock == 6
\* SpecSend: sendGameEvent calls
MaxEvents == 2
\* SpecWire: frames sent on one WebSocket
MaxWire == 3
MaxPly == 2
MaxGames == 2
MaxAi == 1
MaxTasks == 1

(***************************************************************************)
(* Program constants.                                                      *)
(***************************************************************************)
\* part_003:272  if (connectAttempts.current > 5)
MAX_ATTEMPTS == 5
\* part_003:407  event.code >= 4000
CUSTOM_CODE_MIN == 4000

\* part_003:196-206
FATAL_CLOSE_CODES ==
    {1002, 1003, 1007, 1008, 1009, 1010, 1011, 1015,
     4000, 4001, 4002, 4003, 4004, 4005}

\* close codes the environment may deliver (event.code)
CloseCodes ==
    {1000, 1001, 1002, 1003, 1005, 1006, 1007, 1008, 1009, 1010, 1011, 1015,
     3999, 4000, 4005, 4006, 4999}

\* the few of them Spec delivers: one normal, one abnormal, one listed as
\* fatal, one custom that is not listed
SomeCloseCodes == {1000, 1006, 1011, 4006}

\* the frames of the handshake
HandshakeFrames == {"setupComplete", "error"}

\* the code of a close event that follows a failed connection
ABNORMAL == 1006

Slots == 1..(IF MaxLive > MaxRace THEN MaxLive ELSE MaxRace)
Mics  == 1..(IF MaxMic > MaxCaptures THEN MaxMic ELSE MaxCaptures)

\* inbound frames, by what ws.onmessage finds in them
\* ("audioThenMalformed": serverContent whose first part is audio and whose
\* second part is null, so that reading part.inlineData throws)
InFrames ==
    {"setupComplete", "error", "audio", "text", "turnComplete", "malformed",
     "audioThenMalformed"}

\* the arguments of sendChessContext(fen, playerSide, childName)
Fens == {"fen1", "fen2"}
Sides == {"white", "black"}
ChildNames == {"", "Kid"}

\* every value sendChessContext may store
AllContexts == [fen : Fens, playerSide : Sides, childName : ChildNames]

\* the one of them Spec stores
Contexts == {[fen |-> "fen1", playerSide |-> "white", childName |-> "Kid"]}

\* currentContextRef.current === null
NullContext == [fen |-> "null", playerSide |-> "null", childName |-> "null"]

\* events of sendGameEvent
GameEvents == {"game_start", "child_move", "ai_move", "check", "game_end"}

VARIABLES
    isConnected,        \* useState(false)
    isConnecting,       \* useState(false)
    isListening,        \* useState(false)
    isSpeaking,         \* useState(false)
    lastTranscript,     \* useState('')
    error,              \* useState<string | null>(null)
    fatalError,         \* useState(false)
    wsRef,              \* useRef<WebSocket | null>: 0 is null, else a slot
    audioPlayer,        \* audioPlayerRef and the PCMAudioPlayer it holds
    micRef,             \* useRef<MicrophoneCapture | null>: 0 is null
    currentContextRef,  \* useRef<context | null>
    connectAttempts,    \* useRef(0)
    ws,                 \* per slot: one connect() call and its WebSocket
    blob,               \* the binary frame ws.onmessage is decoding, if any
    mic,                \* per capture object: MicrophoneCapture's fields
    last,               \* history: the handler that ran last
    failedRun,          \* history: connect() calls failed in a row
    currentTime,        \* PCMAudioPlayer: audioContext.currentTime, in ticks
    scheduledTime,      \* PCMAudioPlayer: scheduledTime, in ticks
    sources,            \* PCMAudioPlayer: the buffers handed to source.start
    played,             \* history: the player call that ran last
    calc,               \* history: the conversion that ran last
    traffic,            \* history: the events passed to sendGameEvent
    chess,              \* game store: the Chess objects, each the line played
    game,               \* game store: game, the Chess object stored
    fen,                \* game store: fen
    turn,               \* game store: turn
    playerSide,         \* game store: playerSide
    difficulty,         \* game store: difficulty
    gameOver,           \* game store: gameOver
    isThinking,         \* game store: isThinking
    isAnalyzing,        \* game store: isAnalyzing
    currentEval,        \* game store: currentEval
    moveHistory,        \* game store: moveHistory
    aiCalls,            \* game store: the makeAiMove calls that are awaiting
    tasks,              \* game store: the background tasks of makeMove
    did                 \* history: the store action that ran last

vars == <<isConnected, isConnecting, isListening, isSpeaking, lastTranscript,
          error, fatalError, wsRef, audioPlayer, micRef, currentContextRef,
          connectAttempts, ws, blob, mic, last, failedRun, currentTime,
          scheduledTime, sources, played, calc, traffic, chess, game, fen,
          turn, playerSide, difficulty, gameOver, isThinking, isAnalyzing,
          currentEval, moveHistory, aiCalls, tasks, did>>

\* the game store, which only SpecStore and SpecAnalysis follow
gameStore == <<chess, game, fen, turn, playerSide, difficulty, gameOver,
               isThinking, isAnalyzing, currentEval, moveHistory, aiCalls,
               tasks, did>>

\* the player's timeline, the conversions and the events, which only
\* SpecAudio, SpecCodec and SpecSend follow
detail == <<currentTime, scheduledTime, sources, played, calc, traffic,
            gameStore>>

flags == <<isConnected, isConnecting, isListening, isSpeaking>>

(***************************************************************************)
(* The objects.                                                            *)
(***************************************************************************)
\* a slot no connect() call uses
FreeSlot == [st |-> "free", resolved |-> FALSE]

\* no ws.onmessage is awaiting event.data.text()
NoBlob == [slot |-> 0, frame |-> "none"]

\* a capture object that does not exist
FreeMic == [ph |-> "free", cb |-> FALSE, stream |-> FALSE]

\* audioPlayerRef.current === null
NoPlayer == [exists |-> FALSE, owner |-> 0, isPlaying |-> FALSE, resuming |-> FALSE]

\* the handler that ran last: its name, the slot and the close code it ran
\* for, what a call returned by it ("none": nothing returned, "pending": the
\* call awaits), the frame it sent ("none": no ws.send), and the attempt
\* counter and the fatal flag it found
Op(op, slot, code, ret, out) ==
    [op |-> op, slot |-> slot, code |-> code, ret |-> ret, out |-> out,
     pre |-> connectAttempts, wasFatal |-> fatalError]

\* no player call yet: op is the call, scheduled whether playPCM reached
\* source.start, now and cursor the clock and scheduledTime it found, run
\* the number of playPCM calls scheduled in a row with nothing in between,
\* now0 and cursor0 what the first call of the run found, interrupted
\* whether interrupt() ran since the last playPCM, fresh whether this
\* playPCM is the first one since an interrupt()
NoCall ==
    [op |-> "none", scheduled |-> FALSE, now |-> 0, cursor |-> 0, run |-> 0,
     now0 |-> 0, cursor0 |-> 0, interrupted |-> FALSE, fresh |-> FALSE]

\* no conversion yet
NoCalc == [fn |-> "none"]

\* no sendGameEvent call yet: calls is the number of calls made (the n-th
\* call passes event number n), dropped the events passed while isConnected
\* was false and not handed to ws.send, sent the events handed to ws.send,
\* event and prompt the kind and the prompt of the last call, pushed the
\* arguments of the last sendChessContext call; opened is the number of
\* WebSockets made since the last setupComplete frame was handled; wire is,
\* for each slot, the frames handed to the send of its WebSocket, in order
NoTraffic ==
    [calls |-> 0, dropped |-> {}, sent |-> {}, event |-> "none",
     prompt |-> <<>>, pushed |-> NullContext, opened |-> 0,
     wire |-> [s \in Slots |-> <<>>]]

\* the moves of the game store: a move is known by its SAN
Sans == {"Nf3", "Qh5"}

\* game.turn(): white moves first
TurnOf(line) == IF Len(line) % 2 = 0 THEN "w" ELSE "b"

\* game.fen(): the position reached by the line played, with the side to move
FenOf(line) == [line |-> line, turn |-> TurnOf(line)]

\* game.isGameOver(): a game lasts MaxPly moves
IsGameOver(line) == Len(line) >= MaxPly

\* getPositionEval(fen).eval: the service's score of the position, here one
\* pawn up for every Nf3 played and two down for every Qh5
PositionEval(f) ==
    Len(SelectSeq(f.line, LAMBDA m : m = "Nf3"))
        - 2 * Len(SelectSeq(f.line, LAMBDA m : m = "Qh5"))

\* Math.ceil((moveHistory.length + 1) / 2)
MoveNumber(history) == (Len(history) + 2) \div 2

\* a MoveRecord as makeMove and makeAiMove first write it
MoveRecord(history, san, f, evaluation, isPlayerMove) ==
    [moveNumber |-> MoveNumber(history), san |-> san, fen |-> f,
     evaluation |-> evaluation, isBlunder |-> FALSE, isMistake |-> FALSE,
     comment |-> "null", isPlayerMove |-> isPlayerMove]

\* no makeAiMove call awaiting in this place
IdleAi ==
    [pc |-> "idle", game |-> 0, moveHistory |-> <<>>, currentEval |-> 0,
     san |-> "none", newFen |-> FenOf(<<>>), isGameOver |-> FALSE]

\* no background task of makeMove in this place
IdleTask ==
    [pc |-> "idle", san |-> "none", newFen |-> FenOf(<<>>), evalBefore |-> 0]

\* the store as create() builds it
StoreInit ==
    /\ chess = [g \in 1..MaxGames |-> <<>>]
    /\ game = 1
    /\ fen = FenOf(<<>>)
    /\ turn = "w"
    /\ playerSide = "white"
    /\ difficulty = "easy"
    /\ gameOver = FALSE
    /\ isThinking = FALSE
    /\ isAnalyzing = FALSE
    /\ currentEval = 0
    /\ moveHistory = <<>>
    /\ aiCalls = [c \in 1..MaxAi |-> IdleAi]
    /\ tasks = [k \in 1..MaxTasks |-> IdleTask]
    /\ did = [op |-> "create", ret |-> "none", plain |-> FALSE]

DetailInit ==
    /\ StoreInit
    /\ currentTime = 0
    /\ scheduledTime = 0
    /\ sources = <<>>
    /\ played = NoCall
    /\ calc = NoCalc
    /\ traffic = NoTraffic

Init ==
    /\ DetailInit
    /\ isConnected = FALSE
    /\ isConnecting = FALSE
    /\ isListening = FALSE
    /\ isSpeaking = FALSE
    /\ lastTranscript = ""
    /\ error = "null"
    /\ fatalError = FALSE
    /\ wsRef = 0
    /\ audioPlayer = NoPlayer
    /\ micRef = 0
    /\ currentContextRef = NullContext
    /\ connectAttempts = 0
    /\ ws = [s \in Slots |-> FreeSlot]
    /\ mic = [m \in Mics |-> FreeMic]
    /\ blob = NoBlob
    /\ last = Op("init", 0, 0, "none", "none")
    /\ failedRun = 0

(***************************************************************************)
(* Helpers: the pieces of code several handlers share.                     *)
(***************************************************************************)
\* WebSocket.close(): only a CONNECTING or OPEN socket starts closing
CloseSocket(w) ==
    IF w.st \in {"CONNECTING", "OPEN"} THEN [w EXCEPT !.st = "CLOSING"] ELSE w

\* sensitivity variant of Resolve: the resolved flag is never set
ResolveNever(w) == w

\* if (!resolved) { resolved = true; resolve(r); }
Resolve(w) == [w EXCEPT !.resolved = TRUE]

\* sensitivity variant of Returned: the resolved flag is not read
ReturnedAgain(w, r) == r

\* what `if (!resolved) { ...; resolve(r); }` makes the connect() of w return
Returned(w, r) == IF w.resolved THEN "none" ELSE r

\* MicrophoneCapture.stop()
StopCapture(c) == [c EXCEPT !.stream = FALSE, !.cb = FALSE]

\* PCMAudioPlayer.stop()
StopPlayer(p) == [p EXCEPT !.isPlaying = FALSE]

\* fullCleanup(), the microphone part
CleanupMic(mc) ==
    IF micRef # 0 THEN [mc EXCEPT ![micRef] = StopCapture(@)] ELSE mc

\* fullCleanup(), the player part
CleanupPlayer(p) == IF p.exists THEN StopPlayer(p) ELSE p

\* fullCleanup(), the WebSocket part (on the sockets as the handler left them)
CleanupWs(w) ==
    IF wsRef # 0 THEN [w EXCEPT ![wsRef] = CloseSocket(@)] ELSE w

\* sensitivity variant of CleanupFlags: setIsConnecting(false) is missing
CleanupFlagsKeepConnecting ==
    /\ isConnected' = FALSE
    /\ isConnecting' = isConnecting
    /\ isListening' = FALSE
    /\ isSpeaking' = FALSE

\* fullCleanup(), the four setters
CleanupFlags ==
    /\ isConnected' = FALSE
    /\ isConnecting' = FALSE
    /\ isListening' = FALSE
    /\ isSpeaking' = FALSE

\* fullCleanup() but for ws, which the calling handler also writes
FullCleanupRest ==
    /\ mic' = CleanupMic(mic)
    /\ micRef' = 0
    /\ audioPlayer' = CleanupPlayer(audioPlayer)
    /\ wsRef' = 0
    /\ CleanupFlags

\* sensitivity variant of ConnectBlocked: the isConnecting guard is missing
BlockedUnlessConnecting == fatalError \/ isConnected

\* the guards of connect()
ConnectBlocked == fatalError \/ isConnected \/ isConnecting

AttemptsExceeded(n) == n > MAX_ATTEMPTS

\* sensitivity variant of AttemptsOnSetupComplete: the acknowledgment keeps the
\* counter
AttemptsKept == connectAttempts

\* connectAttempts.current = 0 on setupComplete
AttemptsOnSetupComplete == 0

\* sensitivity variant of IsFatalClose: the list alone, without the range
ListedOnly(code) == code \in FATAL_CLOSE_CODES

IsFatalClose(code) == code \in FATAL_CLOSE_CODES \/ code >= CUSTOM_CODE_MIN

\* sensitivity variant of FatalAfterClose: a close event overwrites fatalError
FatalOfCodeOnly(code) == IsFatalClose(code)

\* setFatalError(true) of ws.onclose, or fatalError as it was
FatalAfterClose(code) == IsFatalClose(code) \/ fatalError

\* a slot a new connect() call may take: unused, or its call has returned, its
\* socket is CLOSED and no frame of it is still being decoded
Reusable(s) ==
    \/ ws[s].st = "free"
    \/ ws[s].st = "CLOSED" /\ ws[s].resolved /\ blob.slot # s

NewSlot == CHOOSE s \in Slots : Reusable(s) /\ \A r \in 1..(s-1) : ~Reusable(r)

(***************************************************************************)
(* connect()                                                               *)
(***************************************************************************)
\* connect() up to `await audioPlayerRef.current.init()`; at most `live`
\* calls and transports are alive together
Connect(live) ==
    IF ConnectBlocked
    THEN /\ last' = Op("connect", 0, 0, "false", "none")
         /\ UNCHANGED <<flags, lastTranscript, error, fatalError, wsRef,
                        audioPlayer, micRef, currentContextRef,
                        connectAttempts, ws, blob, mic>>
    ELSE /\ connectAttempts' = connectAttempts + 1
         /\ IF AttemptsExceeded(connectAttempts')
            THEN /\ fatalError' = TRUE
                 /\ error' = "Too many connection attempts"
                 /\ last' = Op("connect", 0, 0, "false", "none")
                 /\ UNCHANGED <<flags, lastTranscript, wsRef, audioPlayer,
                                micRef, currentContextRef, ws, blob, mic>>
            ELSE /\ Cardinality({s \in Slots : ~Reusable(s)}) < live
                 /\ isConnecting' = TRUE
                 /\ error' = "null"
                 /\ audioPlayer' = [exists |-> TRUE, owner |-> NewSlot,
                                    isPlaying |-> FALSE, resuming |-> FALSE]
                 /\ ws' = [ws EXCEPT ![NewSlot] = [FreeSlot EXCEPT !.st = "init"]]
                 /\ last' = Op("connect", NewSlot, 0, "pending", "none")
                 /\ UNCHANGED <<isConnected, isListening, isSpeaking,
                                lastTranscript, fatalError, wsRef, micRef,
                                currentContextRef, blob, mic>>

\* init() resolved: connect() goes on to new WebSocket(url) and the promise
ConnectInitDone(s) ==
    /\ ws[s].st = "init"
    /\ audioPlayer' = IF audioPlayer.exists /\ audioPlayer.owner = s
                      THEN [audioPlayer EXCEPT !.isPlaying = TRUE]
                      ELSE audioPlayer
    /\ ws' = [ws EXCEPT ![s].st = "CONNECTING"]
    /\ wsRef' = s
    /\ last' = Op("initDone", s, 0, "none", "none")
    /\ UNCHANGED <<flags, lastTranscript, error, fatalError, micRef,
                   currentContextRef, connectAttempts, blob, mic>>

\* init() rejected: the catch block of connect()
ConnectInitFail(s) ==
    /\ ws[s].st = "init"
    /\ error' = "Failed to connect"
    /\ isConnecting' = FALSE
    /\ ws' = [ws EXCEPT ![s] = FreeSlot]
    /\ last' = Op("initFail", s, 0, "false", "none")
    /\ UNCHANGED <<isConnected, isListening, isSpeaking, lastTranscript,
                   fatalError, wsRef, audioPlayer, micRef, currentContextRef,
                   connectAttempts, blob, mic>>

\* sensitivity variant of OnOpen: no setup frame is sent
OnOpenSilent(s) ==
    /\ ws[s].st = "CONNECTING"
    /\ ws' = [ws EXCEPT ![s].st = "OPEN"]
    /\ last' = Op("open", s, 0, "none", "none")
    /\ UNCHANGED <<flags, lastTranscript, error, fatalError, wsRef,
                   audioPlayer, micRef, currentContextRef, connectAttempts,
                   blob, mic>>

\* ws.onopen: the setup frame
OnOpen(s) ==
    /\ ws[s].st = "CONNECTING"
    /\ ws' = [ws EXCEPT ![s].st = "OPEN"]
    /\ last' = Op("open", s, 0, "none", "setup")
    /\ UNCHANGED <<flags, lastTranscript, error, fatalError, wsRef,
                   audioPlayer, micRef, currentContextRef, connectAttempts,
                   blob, mic>>

(***************************************************************************)
(* ws.onmessage                                                            *)
(***************************************************************************)
\* the body of ws.onmessage from JSON.parse on, for frame f of slot s
HandleFrame(s, f) ==
    CASE f = "setupComplete" ->
            /\ connectAttempts' = AttemptsOnSetupComplete
            /\ isConnected' = TRUE
            /\ isConnecting' = FALSE
            /\ ws' = [ws EXCEPT ![s] = Resolve(@)]
            /\ last' = Op("setupComplete", s, 0, Returned(ws[s], "true"), "none")
            /\ UNCHANGED <<isListening, isSpeaking, lastTranscript, error,
                           fatalError, wsRef, audioPlayer, micRef,
                           currentContextRef, mic>>
      [] f = "error" ->
            /\ error' = "Server error"
            /\ fatalError' = TRUE
            /\ FullCleanupRest
            /\ ws' = [CleanupWs(ws) EXCEPT ![s] = Resolve(@)]
            /\ last' = Op("errorFrame", s, 0, Returned(ws[s], "false"), "none")
            /\ UNCHANGED <<lastTranscript, currentContextRef, connectAttempts>>
      [] f = "audio" ->
            /\ isSpeaking' = TRUE
            /\ last' = Op("audio", s, 0, "none", "none")
            /\ UNCHANGED <<isConnected, isConnecting, isListening,
                           lastTranscript, error, fatalError, wsRef,
                           audioPlayer, micRef, currentContextRef,
                           connectAttempts, ws, mic>>
      [] f = "text" ->
            /\ lastTranscript' = "text"
            /\ last' = Op("text", s, 0, "none", "none")
            /\ UNCHANGED <<flags, error, fatalError, wsRef, audioPlayer,
                           micRef, currentContextRef, connectAttempts, ws,
                           mic>>
      [] f = "turnComplete" ->
            /\ isSpeaking' = FALSE
            /\ last' = Op("turnComplete", s, 0, "none", "none")
            /\ UNCHANGED <<isConnected, isConnecting, isListening,
                           lastTranscript, error, fatalError, wsRef,
                           audioPlayer, micRef, currentContextRef,
                           connectAttempts, ws, mic>>
      [] f = "audioThenMalformed" ->
            /\ isSpeaking' = TRUE
            /\ last' = Op("malformedPart", s, 0, "none", "none")
            /\ UNCHANGED <<isConnected, isConnecting, isListening,
                           lastTranscript, error, fatalError, wsRef,
                           audioPlayer, micRef, currentContextRef,
                           connectAttempts, ws, mic>>
      [] OTHER ->
            /\ last' = Op("malformed", s, 0, "none", "none")
            /\ UNCHANGED <<flags, lastTranscript, error, fatalError, wsRef,
                           audioPlayer, micRef, currentContextRef,
                           connectAttempts, ws, mic>>

\* a text frame: event.data is a string, the handler runs to its end at once
OnMessage(s, f) ==
    /\ ws[s].st = "OPEN"
    /\ HandleFrame(s, f)
    /\ UNCHANGED blob

\* a binary frame: the handler stops at `await event.data.text()`
OnMessageBlob(s, f) ==
    /\ ws[s].st = "OPEN"
    /\ blob = NoBlob
    /\ blob' = [slot |-> s, frame |-> f]
    /\ last' = Op("blob", s, 0, "none", "none")
    /\ UNCHANGED <<flags, lastTranscript, error, fatalError, wsRef,
                   audioPlayer, micRef, currentContextRef, connectAttempts,
                   ws, mic>>

\* event.data.text() resolved: the handler goes on, whatever happened since
OnBlobText ==
    /\ blob # NoBlob
    /\ HandleFrame(blob.slot, blob.frame)
    /\ blob' = NoBlob

(***************************************************************************)
(* ws.onerror, ws.onclose, the handshake timeout, disconnect()             *)
(***************************************************************************)
\* ws.onclose for slot s with event.code = code, on the sockets w0 and the
\* error message err0 that the same task left
CloseHandler(s, code, w0, err0) ==
    /\ fatalError' = FatalAfterClose(code)
    /\ error' = IF IsFatalClose(code) THEN "Fatal error" ELSE err0
    /\ FullCleanupRest
    /\ ws' = [CleanupWs(w0) EXCEPT ![s] = Resolve(@)]

\* the close event of a socket that was open or closing
OnClose(s, code) ==
    /\ ws[s].st \in {"OPEN", "CLOSING"}
    /\ CloseHandler(s, code, [ws EXCEPT ![s].st = "CLOSED"], error)
    /\ last' = Op("close", s, code, Returned(ws[s], "false"), "none")
    /\ UNCHANGED <<lastTranscript, currentContextRef, connectAttempts, blob>>

\* the connection failed: the error event, then the close event, in one task
OnError(s) ==
    /\ ws[s].st \in {"CONNECTING", "OPEN", "CLOSING"}
    /\ CloseHandler(s, ABNORMAL,
                    [ws EXCEPT ![s] = Resolve([@ EXCEPT !.st = "CLOSED"])],
                    "Connection error")
    /\ last' = Op("wsError", s, ABNORMAL, Returned(ws[s], "false"), "none")
    /\ UNCHANGED <<lastTranscript, currentContextRef, connectAttempts, blob>>

\* the setTimeout callback of connect(), 10 s after the promise was made
Timeout(s) ==
    /\ ws[s].st \in {"CONNECTING", "OPEN", "CLOSING", "CLOSED"}
    /\ ~ws[s].resolved
    /\ ws' = [ws EXCEPT ![s] = Resolve(CloseSocket(@))]
    /\ error' = "Connection timeout"
    /\ isConnecting' = FALSE
    /\ last' = Op("timeout", s, 0, "false", "none")
    /\ UNCHANGED <<isConnected, isListening, isSpeaking, lastTranscript,
                   fatalError, wsRef, audioPlayer, micRef, currentContextRef,
                   connectAttempts, blob, mic>>

\* sensitivity variant of TimeoutLate: the callback does not read `resolved`
TimeoutUnguarded(s) ==
    /\ ws[s].st \in {"CONNECTING", "OPEN", "CLOSING", "CLOSED"}
    /\ ws[s].resolved
    /\ ws' = [ws EXCEPT ![s] = CloseSocket(@)]
    /\ error' = "Connection timeout"
    /\ isConnecting' = FALSE
    /\ last' = Op("timeout", s, 0, "none", "none")
    /\ UNCHANGED <<isConnected, isListening, isSpeaking, lastTranscript,
                   fatalError, wsRef, audioPlayer, micRef, currentContextRef,
                   connectAttempts, blob, mic>>

\* the setTimeout callback of connect() when the promise is settled already:
\* `if (!resolved)` is false and the callback does nothing
TimeoutLate(s) ==
    /\ ws[s].st \in {"CONNECTING", "OPEN", "CLOSING", "CLOSED"}
    /\ ws[s].resolved
    /\ last' = Op("timeout", s, 0, "none", "none")
    /\ UNCHANGED <<flags, lastTranscript, error, fatalError, wsRef,
                   audioPlayer, micRef, currentContextRef, connectAttempts,
                   ws, blob, mic>>

\* sensitivity variant of Disconnect: it also resets the attempt counter
DisconnectResetting ==
    /\ FullCleanupRest
    /\ ws' = CleanupWs(ws)
    /\ connectAttempts' = 0
    /\ last' = Op("disconnect", 0, 0, "none", "none")
    /\ UNCHANGED <<lastTranscript, error, fatalError, currentContextRef, blob>>

\* sensitivity variant of Disconnect: it also clears fatalError and error
DisconnectForgiving ==
    /\ FullCleanupRest
    /\ ws' = CleanupWs(ws)
    /\ fatalError' = FALSE
    /\ error' = "null"
    /\ last' = Op("disconnect", 0, 0, "none", "none")
    /\ UNCHANGED <<lastTranscript, currentContextRef, connectAttempts, blob>>

\* disconnect()
Disconnect ==
    /\ FullCleanupRest
    /\ ws' = CleanupWs(ws)
    /\ last' = Op("disconnect", 0, 0, "none", "none")
    /\ UNCHANGED <<lastTranscript, error, fatalError, currentContextRef,
                   connectAttempts, blob>>

(***************************************************************************)
(* sendChessContext, sendGameEvent                                         *)
(***************************************************************************)
\* sensitivity variant of SendChessContext: the context is also sent
SendChessContextOnWire(c) ==
    /\ currentContextRef' = c
    /\ last' = Op("sendChessContext", 0, 0, "none",
                  IF wsRef # 0 /\ ws[wsRef].st = "OPEN" THEN "client_content"
                  ELSE "none")
    /\ UNCHANGED <<flags, lastTranscript, error, fatalError, wsRef,
                   audioPlayer, micRef, connectAttempts, ws, blob, mic>>

\* sensitivity variant of SendChessContext: a stored context is kept
SendChessContextOnce(c) ==
    /\ currentContextRef' = IF currentContextRef = NullContext THEN c
                            ELSE currentContextRef
    /\ last' = Op("sendChessContext", 0, 0, "none", "none")
    /\ UNCHANGED <<flags, lastTranscript, error, fatalError, wsRef,
                   audioPlayer, micRef, connectAttempts, ws, blob, mic>>

\* sendChessContext(fen, playerSide, childName)
SendChessContext(c) ==
    /\ currentContextRef' = c
    /\ last' = Op("sendChessContext", 0, 0, "none", "none")
    /\ UNCHANGED <<flags, lastTranscript, error, fatalError, wsRef,
                   audioPlayer, micRef, connectAttempts, ws, blob, mic>>

\* wsRef.current && wsRef.current.readyState === WebSocket.OPEN
SocketOpen == wsRef # 0 /\ ws[wsRef].st = "OPEN"

\* the frame sendGameEvent hands to ws.send, "none" when it returns early
EventFrame == IF SocketOpen THEN "client_content" ELSE "none"

SendGameEvent(e) ==
    /\ last' = Op("sendGameEvent", IF SocketOpen THEN wsRef ELSE 0, 0, "none",
                  EventFrame)
    /\ UNCHANGED <<flags, lastTranscript, error, fatalError, wsRef,
                   audioPlayer, micRef, currentContextRef, connectAttempts,
                   ws, blob, mic>>

(***************************************************************************)
(* interrupt, startListening, stopListening                                *)
(***************************************************************************)
\* audioPlayerRef.current.stop(); audioPlayerRef.current.resume(), up to the
\* `await this.audioContext.resume()` inside resume()
InterruptPlayer(p) ==
    IF p.exists THEN [StopPlayer(p) EXCEPT !.resuming = TRUE] ELSE p

Interrupt ==
    /\ audioPlayer' = InterruptPlayer(audioPlayer)
    /\ isSpeaking' = FALSE
    /\ last' = Op("interrupt", 0, 0, "none", "none")
    /\ UNCHANGED <<isConnected, isConnecting, isListening, lastTranscript,
                   error, fatalError, wsRef, micRef, currentContextRef,
                   connectAttempts, ws, blob, mic>>

\* PCMAudioPlayer.resume() after its await
ResumeDone ==
    /\ audioPlayer.resuming
    /\ audioPlayer' = [audioPlayer EXCEPT !.resuming = FALSE, !.isPlaying = TRUE]
    /\ last' = Op("resumeDone", 0, 0, "none", "none")
    /\ UNCHANGED <<flags, lastTranscript, error, fatalError, wsRef, micRef,
                   currentContextRef, connectAttempts, ws, blob, mic>>

\* the guard of startListening
ListenBlocked == ~isConnected \/ isListening

\* a capture object that is garbage: made or not, it holds no stream and no
\* start() of it is awaiting the microphone
ReusableMic(c) == c.ph \in {"free", "done"} /\ ~c.stream

NewMic == CHOOSE m \in Mics : ReusableMic(mic[m]) /\ \A r \in 1..(m-1) : ~ReusableMic(mic[r])

\* startListening up to `await navigator.mediaDevices.getUserMedia`; at most
\* `live` capture objects are awaiting the microphone or holding a stream
\* together
StartListening(live) ==
    IF ListenBlocked
    THEN /\ last' = Op("startListening", 0, 0, "false", "none")
         /\ UNCHANGED <<flags, lastTranscript, error, fatalError, wsRef,
                        audioPlayer, micRef, currentContextRef,
                        connectAttempts, ws, blob, mic>>
    ELSE /\ Cardinality({m \in Mics : ~ReusableMic(mic[m])}) < live
         /\ micRef' = NewMic
         /\ mic' = [mic EXCEPT ![NewMic] = [ph |-> "await", cb |-> TRUE, stream |-> FALSE]]
         /\ last' = Op("startListening", 0, 0, "pending", "none")
         /\ UNCHANGED <<flags, lastTranscript, error, fatalError, wsRef,
                        audioPlayer, currentContextRef, connectAttempts, ws,
                        blob>>

\* getUserMedia resolved: start() builds the graph and returns true, and
\* startListening goes on with setIsListening(true); interrupt()
MicGranted(m) ==
    /\ mic[m].ph = "await"
    /\ mic' = [mic EXCEPT ![m].ph = "done", ![m].stream = TRUE]
    /\ isListening' = TRUE
    /\ audioPlayer' = InterruptPlayer(audioPlayer)
    /\ isSpeaking' = FALSE
    /\ last' = Op("micGranted", 0, 0, "true", "none")
    /\ UNCHANGED <<isConnected, isConnecting, lastTranscript, error,
                   fatalError, wsRef, micRef, currentContextRef,
                   connectAttempts, ws, blob>>

\* getUserMedia rejected: start() returns false, and so does startListening
MicDenied(m) ==
    /\ mic[m].ph = "await"
    /\ mic' = [mic EXCEPT ![m].ph = "done"]
    /\ last' = Op("micDenied", 0, 0, "false", "none")
    /\ UNCHANGED <<flags, lastTranscript, error, fatalError, wsRef,
                   audioPlayer, micRef, currentContextRef, connectAttempts,
                   ws, blob>>

\* onaudioprocess of a running capture whose callback is set, sending
MicChunk(m) ==
    /\ mic[m].stream
    /\ mic[m].cb
    /\ SocketOpen
    /\ last' = Op("micChunk", wsRef, 0, "none", "realtime_input")
    /\ UNCHANGED <<flags, lastTranscript, error, fatalError, wsRef,
                   audioPlayer, micRef, currentContextRef, connectAttempts,
                   ws, blob, mic>>

\* sensitivity variant of StopListening: it also interrupts the playback
StopListeningAndInterrupt ==
    /\ mic' = CleanupMic(mic)
    /\ micRef' = 0
    /\ isListening' = FALSE
    /\ audioPlayer' = InterruptPlayer(audioPlayer)
    /\ isSpeaking' = FALSE
    /\ last' = Op("stopListening", 0, 0, "none", "none")
    /\ UNCHANGED <<isConnected, isConnecting, lastTranscript, error,
                   fatalError, wsRef, currentContextRef, connectAttempts, ws,
                   blob>>

\* stopListening()
StopListening ==
    /\ mic' = CleanupMic(mic)
    /\ micRef' = 0
    /\ isListening' = FALSE
    /\ last' = Op("stopListening", 0, 0, "none", "none")
    /\ UNCHANGED <<isConnected, isConnecting, isSpeaking, lastTranscript,
                   error, fatalError, wsRef, audioPlayer, currentContextRef,
                   connectAttempts, ws, blob>>

(***************************************************************************)
(* The specifications.                                                     *)
(***************************************************************************)
\* history: a connect() that passed its guards has returned false (one more
\* failed call in a row, counted up to MAX_ATTEMPTS) or true (none)
FailedRunNext ==
    IF last'.op = "connect" /\ ConnectBlocked THEN failedRun
    ELSE IF last'.ret = "false"
         THEN (IF failedRun < MAX_ATTEMPTS THEN failedRun + 1 ELSE failedRun)
    ELSE IF last'.ret = "true" THEN 0
    ELSE failedRun

Track == failedRun' = FailedRunNext /\ UNCHANGED detail

NoTrack == failedRun' = failedRun /\ UNCHANGED detail

\* Spec: the whole hook, every operation and every event, one transport
\* alive at a time
Next ==
    \/ Connect(MaxLive) /\ NoTrack
    \/ \E s \in Slots : ConnectInitDone(s) /\ NoTrack
    \/ \E s \in Slots : ConnectInitFail(s) /\ NoTrack
    \/ \E s \in Slots : OnOpen(s) /\ NoTrack
    \/ \E s \in Slots, f \in InFrames : OnMessage(s, f) /\ NoTrack
    \/ \E s \in Slots, f \in InFrames : OnMessageBlob(s, f) /\ NoTrack
    \/ OnBlobText /\ NoTrack
    \/ \E s \in Slots, code \in SomeCloseCodes : OnClose(s, code) /\ NoTrack
    \/ \E s \in Slots : OnError(s) /\ NoTrack
    \/ \E s \in Slots : Timeout(s) /\ NoTrack
    \/ Disconnect /\ NoTrack
    \/ \E c \in Contexts : SendChessContext(c) /\ NoTrack
    \/ \E e \in GameEvents : SendGameEvent(e) /\ NoTrack
    \/ Interrupt /\ NoTrack
    \/ ResumeDone /\ NoTrack
    \/ StartListening(MaxMic) /\ NoTrack
    \/ \E m \in Mics : MicGranted(m) /\ NoTrack
    \/ \E m \in Mics : MicDenied(m) /\ NoTrack
    \/ \E m \in Mics : MicChunk(m) /\ NoTrack
    \/ StopListening /\ NoTrack

Spec == Init /\ [][Next]_vars

\* SpecConn: the connection alone (connect, the handshake, every way a
\* transport ends, disconnect), an old transport still alive beside a new
\* one, and the failed calls counted
NextConn ==
    \/ Connect(MaxRace) /\ Track
    \/ \E s \in Slots : ConnectInitDone(s) /\ Track
    \/ \E s \in Slots : ConnectInitFail(s) /\ Track
    \/ \E s \in Slots : OnOpen(s) /\ Track
    \/ \E s \in Slots, f \in HandshakeFrames : OnMessage(s, f) /\ Track
    \/ \E s \in Slots, f \in HandshakeFrames : OnMessageBlob(s, f) /\ Track
    \/ OnBlobText /\ Track
    \/ \E s \in Slots, code \in SomeCloseCodes : OnClose(s, code) /\ Track
    \/ \E s \in Slots : OnError(s) /\ Track
    \/ \E s \in Slots : Timeout(s) /\ Track
    \/ Disconnect /\ Track

SpecConn == Init /\ [][NextConn]_vars

\* SpecClose: the connection alone, one transport alive at a time, and every
\* close code
NextClose ==
    \/ Connect(MaxLive) /\ NoTrack
    \/ \E s \in Slots : ConnectInitDone(s) /\ NoTrack
    \/ \E s \in Slots : ConnectInitFail(s) /\ NoTrack
    \/ \E s \in Slots : OnOpen(s) /\ NoTrack
    \/ \E s \in Slots, f \in HandshakeFrames : OnMessage(s, f) /\ NoTrack
    \/ \E s \in Slots, f \in HandshakeFrames : OnMessageBlob(s, f) /\ NoTrack
    \/ OnBlobText /\ NoTrack
    \/ \E s \in Slots, code \in CloseCodes : OnClose(s, code) /\ NoTrack
    \/ \E s \in Slots : OnError(s) /\ NoTrack
    \/ \E s \in Slots : Timeout(s) /\ NoTrack
    \/ Disconnect /\ NoTrack

SpecClose == Init /\ [][NextClose]_vars

\* SpecReturn: the connection alone, one transport alive at a time, the
\* timer of connect() firing before or after the promise is settled; the
\* timer set by setTimeout(..., 10000) is never cleared, so that its callback
\* runs in the end
NextReturn ==
    \/ Connect(MaxLive) /\ NoTrack
    \/ \E s \in Slots : ConnectInitDone(s) /\ NoTrack
    \/ \E s \in Slots : ConnectInitFail(s) /\ NoTrack
    \/ \E s \in Slots : OnOpen(s) /\ NoTrack
    \/ \E s \in Slots, f \in HandshakeFrames : OnMessage(s, f) /\ NoTrack
    \/ \E s \in Slots, f \in HandshakeFrames : OnMessageBlob(s, f) /\ NoTrack
    \/ OnBlobText /\ NoTrack
    \/ \E s \in Slots, code \in SomeCloseCodes : OnClose(s, code) /\ NoTrack
    \/ \E s \in Slots : OnError(s) /\ NoTrack
    \/ \E s \in Slots : Timeout(s) /\ NoTrack
    \/ \E s \in Slots : TimeoutLate(s) /\ NoTrack
    \/ Disconnect /\ NoTrack

SpecReturn ==
    /\ Init
    /\ [][NextReturn]_vars
    /\ \A s \in Slots : WF_vars(Timeout(s) /\ NoTrack)

\* history: one more `new WebSocket(url)` since the last setupComplete frame
\* was handled, or none since it was handled in this step
OpenedNext ==
    IF last'.op = "setupComplete" THEN 0
    ELSE IF last'.op = "initDone" THEN traffic.opened + 1
    ELSE traffic.opened

Counted ==
    /\ traffic' = [traffic EXCEPT !.opened = OpenedNext]
    /\ failedRun' = failedRun
    /\ UNCHANGED <<currentTime, scheduledTime, sources, played, calc,
                   gameStore>>

\* SpecStorm: the connection alone, an old transport still alive beside a
\* new one, and the WebSockets made counted
NextStorm ==
    \/ Connect(MaxRace) /\ Counted
    \/ \E s \in Slots : ConnectInitDone(s) /\ Counted
    \/ \E s \in Slots : ConnectInitFail(s) /\ Counted
    \/ \E s \in Slots : OnOpen(s) /\ Counted
    \/ \E s \in Slots, f \in HandshakeFrames : OnMessage(s, f) /\ Counted
    \/ \E s \in Slots, f \in HandshakeFrames : OnMessageBlob(s, f) /\ Counted
    \/ OnBlobText /\ Counted
    \/ \E s \in Slots, code \in SomeCloseCodes : OnClose(s, code) /\ Counted
    \/ \E s \in Slots : OnError(s) /\ Counted
    \/ \E s \in Slots : Timeout(s) /\ Counted
    \/ Disconnect /\ Counted

SpecStorm == Init /\ [][NextStorm]_vars

\* history: a new WebSocket has sent nothing; a frame handed to ws.send is
\* the next one on its socket
WireNext ==
    IF last'.op = "initDone"
    THEN [traffic.wire EXCEPT ![last'.slot] = <<>>]
    ELSE IF last'.out # "none"
         THEN [traffic.wire EXCEPT ![last'.slot] = Append(@, last'.out)]
    ELSE traffic.wire

Wired ==
    /\ last'.out # "none" => Len(traffic.wire[last'.slot]) < MaxWire
    /\ traffic' = [traffic EXCEPT !.wire = WireNext]
    /\ failedRun' = failedRun
    /\ UNCHANGED <<currentTime, scheduledTime, sources, played, calc,
                   gameStore>>

\* SpecWire: everything that sends a frame (ws.onopen, sendGameEvent, the
\* chunk callback of the capture) with the connection, one transport alive
\* at a time, and the capture, and the frames of each WebSocket recorded
NextWire ==
    \/ Connect(MaxLive) /\ Wired
    \/ \E s \in Slots : ConnectInitDone(s) /\ Wired
    \/ \E s \in Slots : ConnectInitFail(s) /\ Wired
    \/ \E s \in Slots : OnOpen(s) /\ Wired
    \/ \E s \in Slots, f \in HandshakeFrames : OnMessage(s, f) /\ Wired
    \/ \E s \in Slots, code \in SomeCloseCodes : OnClose(s, code) /\ Wired
    \/ \E s \in Slots : OnError(s) /\ Wired
    \/ \E s \in Slots : Timeout(s) /\ Wired
    \/ Disconnect /\ Wired
    \/ \E e \in GameEvents : SendGameEvent(e) /\ Wired
    \/ ResumeDone /\ Wired
    \/ StartListening(MaxMic) /\ Wired
    \/ \E m \in Mics : MicGranted(m) /\ Wired
    \/ \E m \in Mics : MicDenied(m) /\ Wired
    \/ \E m \in Mics : MicChunk(m) /\ Wired
    \/ StopListening /\ Wired

SpecWire == Init /\ [][NextWire]_vars

\* SpecMic: the capture (startListening, the answer of getUserMedia,
\* stopListening), a second capture object beside the first, with the
\* connection, one transport alive at a time
NextMic ==
    \/ Connect(MaxLive) /\ NoTrack
    \/ \E s \in Slots : ConnectInitDone(s) /\ NoTrack
    \/ \E s \in Slots : ConnectInitFail(s) /\ NoTrack
    \/ \E s \in Slots : OnOpen(s) /\ NoTrack
    \/ \E s \in Slots, f \in HandshakeFrames : OnMessage(s, f) /\ NoTrack
    \/ \E s \in Slots, code \in SomeCloseCodes : OnClose(s, code) /\ NoTrack
    \/ \E s \in Slots : OnError(s) /\ NoTrack
    \/ \E s \in Slots : Timeout(s) /\ NoTrack
    \/ Disconnect /\ NoTrack
    \/ ResumeDone /\ NoTrack
    \/ StartListening(MaxCaptures) /\ NoTrack
    \/ \E m \in Mics : MicGranted(m) /\ NoTrack
    \/ \E m \in Mics : MicDenied(m) /\ NoTrack
    \/ \E m \in Mics : MicChunk(m) /\ NoTrack
    \/ StopListening /\ NoTrack

SpecMic == Init /\ [][NextMic]_vars

(***************************************************************************)
(* The context and the events (SpecSend): sendChessContext with every      *)
(* context, sendGameEvent with the prompt it builds, and the connection.   *)
(***************************************************************************)
\* the player's timeline and the conversions
playerAndCalc == <<currentTime, scheduledTime, sources, played, calc,
                   gameStore>>

\* context?.childName || 'Ученик', the default written in Latin letters
ChildNameOf(ctx) ==
    IF ctx = NullContext \/ ctx.childName = "" THEN "Uchenik"
    ELSE ctx.childName

\* context?.playerSide === 'white' ? 'белыми' : 'чёрными', in English
SideWord(ctx) ==
    IF ctx # NullContext /\ ctx.playerSide = "white" THEN "as white"
    ELSE "as black"

\* the switch of sendGameEvent: the template of the event and the values of
\* the context it interpolates (the move and the evaluation are arguments of
\* the call and are left out)
Prompt(e, ctx) ==
    CASE e = "game_start" -> <<e, ChildNameOf(ctx), SideWord(ctx)>>
      [] e = "child_move" -> <<e, ChildNameOf(ctx)>>
      [] OTHER -> <<e>>

\* sensitivity variant of Handed: events dropped earlier are sent as well
HandedWithBacklog(n) ==
    IF last'.out = "client_content" THEN {n} \cup traffic.dropped ELSE {}

\* the events wsRef.current.send(JSON.stringify(message)) transmits in a
\* sendGameEvent call that passes event number n: the one message built in
\* that call
Handed(n) == IF last'.out = "client_content" THEN {n} ELSE {}

\* history of sendChessContext(c)
Pushed(c) ==
    /\ traffic' = [traffic EXCEPT !.pushed = c]
    /\ failedRun' = failedRun
    /\ UNCHANGED playerAndCalc

\* history of sendGameEvent(e), and the prompt it builds from
\* currentContextRef.current
Passed(e) ==
    /\ traffic.calls < MaxEvents
    /\ traffic' = [traffic EXCEPT
                      !.calls = @ + 1,
                      !.dropped = IF ~isConnected /\ last'.out = "none"
                                  THEN @ \cup {traffic.calls + 1} ELSE @,
                      !.sent = @ \cup Handed(traffic.calls + 1),
                      !.event = e,
                      !.prompt = IF SocketOpen
                                 THEN Prompt(e, currentContextRef) ELSE <<>>]
    /\ failedRun' = failedRun
    /\ UNCHANGED playerAndCalc

\* SpecSend: the connection, one transport alive at a time, with
\* sendChessContext and sendGameEvent
NextSend ==
    \/ Connect(MaxLive) /\ NoTrack
    \/ \E s \in Slots : ConnectInitDone(s) /\ NoTrack
    \/ \E s \in Slots : ConnectInitFail(s) /\ NoTrack
    \/ \E s \in Slots : OnOpen(s) /\ NoTrack
    \/ \E s \in Slots, f \in HandshakeFrames : OnMessage(s, f) /\ NoTrack
    \/ \E s \in Slots, code \in SomeCloseCodes : OnClose(s, code) /\ NoTrack
    \/ \E s \in Slots : OnError(s) /\ NoTrack
    \/ \E s \in Slots : Timeout(s) /\ NoTrack
    \/ Disconnect /\ NoTrack
    \/ \E c \in AllContexts : SendChessContext(c) /\ Pushed(c)
    \/ \E e \in GameEvents : SendGameEvent(e) /\ Passed(e)

SpecSend == Init /\ [][NextSend]_vars


(***************************************************************************)
(* PCMAudioPlayer with its clock (SpecAudio).  Time is counted in ticks;   *)
(* a buffer's duration is a whole number of ticks.                         *)
(***************************************************************************)
\* the hook's state that the player does not touch
hookRest ==
    <<isConnected, isConnecting, isListening, isSpeaking, lastTranscript,
      error, fatalError, wsRef, micRef, currentContextRef, connectAttempts,
      ws, blob, mic, last, failedRun, traffic, gameStore>>

\* the player as connect() has it after `await audioPlayerRef.current.init()`
InitAudio ==
    /\ DetailInit
    /\ audioPlayer = [NoPlayer EXCEPT !.exists = TRUE, !.isPlaying = TRUE]
    /\ isConnected = FALSE
    /\ isConnecting = FALSE
    /\ isListening = FALSE
    /\ isSpeaking = FALSE
    /\ lastTranscript = ""
    /\ error = "null"
    /\ fatalError = FALSE
    /\ wsRef = 0
    /\ micRef = 0
    /\ currentContextRef = NullContext
    /\ connectAttempts = 0
    /\ ws = [s \in Slots |-> FreeSlot]
    /\ mic = [m \in Mics |-> FreeMic]
    /\ blob = NoBlob
    /\ last = Op("init", 0, 0, "none", "none")
    /\ failedRun = 0

\* sensitivity variant of StartTime: the cursor is ignored
StartAtNow(cursor, now) == now

\* Math.max(this.scheduledTime, this.audioContext.currentTime)
StartTime(cursor, now) == IF cursor > now THEN cursor ELSE now

\* playPCM(base64Data) with a buffer of d ticks
PlayPCM(d) ==
    /\ Len(sources) < MaxSources
    /\ IF ~audioPlayer.exists \/ ~audioPlayer.isPlaying
       THEN /\ played' = [played EXCEPT !.op = "playPCM",
                                        !.scheduled = FALSE,
                                        !.now = currentTime,
                                        !.cursor = scheduledTime,
                                        !.run = 0,
                                        !.interrupted = FALSE,
                                        !.fresh = played.interrupted]
            /\ UNCHANGED <<scheduledTime, sources>>
       ELSE /\ sources' = Append(sources,
                                 [start |-> StartTime(scheduledTime, currentTime),
                                  duration |-> d])
            /\ scheduledTime' = StartTime(scheduledTime, currentTime) + d
            /\ played' = [op |-> "playPCM",
                          scheduled |-> TRUE,
                          now |-> currentTime,
                          cursor |-> scheduledTime,
                          run |-> played.run + 1,
                          now0 |-> IF played.run = 0 THEN currentTime
                                   ELSE played.now0,
                          cursor0 |-> IF played.run = 0 THEN scheduledTime
                                      ELSE played.cursor0,
                          interrupted |-> FALSE,
                          fresh |-> played.interrupted]
    /\ UNCHANGED <<currentTime, audioPlayer, calc, hookRest>>

\* stop()
PlayerStop ==
    /\ audioPlayer' = StopPlayer(audioPlayer)
    /\ scheduledTime' = currentTime
    /\ played' = [played EXCEPT !.op = "stop", !.run = 0]
    /\ UNCHANGED <<currentTime, sources, calc, hookRest>>

\* interrupt() of the hook: stop(), then resume() up to its await
PlayerInterrupt ==
    /\ audioPlayer' = InterruptPlayer(audioPlayer)
    /\ scheduledTime' = currentTime
    /\ played' = [played EXCEPT !.op = "interrupt", !.run = 0,
                                !.interrupted = TRUE]
    /\ UNCHANGED <<currentTime, sources, calc, hookRest>>

\* resume() after `await this.audioContext.resume()`
PlayerResumeDone ==
    /\ audioPlayer.resuming
    /\ audioPlayer' = [audioPlayer EXCEPT !.resuming = FALSE, !.isPlaying = TRUE]
    /\ scheduledTime' = currentTime
    /\ played' = [played EXCEPT !.op = "resumeDone", !.run = 0]
    /\ UNCHANGED <<currentTime, sources, calc, hookRest>>

\* audioContext.currentTime advances
Tick ==
    /\ currentTime < MaxTime
    /\ currentTime' = currentTime + 1
    /\ played' = [played EXCEPT !.op = "tick", !.run = 0]
    /\ UNCHANGED <<scheduledTime, sources, audioPlayer, calc, hookRest>>

\* SpecAudio: the player alone
NextAudio ==
    \/ \E d \in 1..MaxDuration : PlayPCM(d)
    \/ PlayerStop
    \/ PlayerInterrupt
    \/ PlayerResumeDone
    \/ Tick

SpecAudio == InitAudio /\ [][NextAudio]_vars

(***************************************************************************)
(* The conversions (SpecCodec): MicrophoneCapture.resample and the         *)
(* decoding of an inbound frame by ws.onmessage.                           *)
(***************************************************************************)
\* part_003:92  const targetSampleRate = 16000
TARGET_RATE == 16000

\* audioContext.sampleRate of the capture
Rates == {16000, 44100, 48000}

\* input samples: floats, of which -2 lies outside [-1, 1]
Samples == {-2, -1, 0, 1}

\* Math.max(-1, Math.min(1, x))
Clamp(x) == IF x < -1 THEN -1 ELSE IF x > 1 THEN 1 ELSE x

\* s < 0 ? s * 0x8000 : s * 0x7FFF, stored in an Int16Array
ToInt16(x) == IF Clamp(x) < 0 THEN Clamp(x) * 32768 ELSE Clamp(x) * 32767

\* Math.floor(inputData.length / ratio), ratio = inputSampleRate / 16000
OutputLength(len, rate) == (len * TARGET_RATE) \div rate

\* sensitivity variant of SrcIndex: no sample is skipped
SrcIndexNoSkip(i, rate) == i

\* Math.floor(i * ratio), i counted from 0
SrcIndex(i, rate) == (i * rate) \div TARGET_RATE

\* resample(inputData, inputSampleRate); sequences are indexed from 1
Resample(input, rate) ==
    [i \in 1..OutputLength(Len(input), rate)
        |-> ToInt16(input[SrcIndex(i - 1, rate) + 1])]

\* onaudioprocess resamples the block it was handed
ResampleBlock ==
    /\ calc.fn = "block"
    /\ calc' = [fn |-> "resample", input |-> calc.input, rate |-> calc.rate,
                out |-> Resample(calc.input, calc.rate)]
    /\ UNCHANGED <<audioPlayer, currentTime, scheduledTime, sources, played,
                   hookRest>>

\* what a frame says, whatever the spelling of its keys
LogicalFrames ==
    {"ack", "error", "audio", "text", "audioText", "turnComplete",
     "audioTurnComplete", "textTurnComplete", "empty"}

HasAudio(l) == l \in {"audio", "audioText", "audioTurnComplete"}

HasText(l) == l \in {"text", "audioText", "textTurnComplete"}

HasTurnComplete(l) ==
    l \in {"turnComplete", "audioTurnComplete", "textTurnComplete"}

\* the two spellings of the keys the server may use
Conventions == {"camel", "snake"}

Key(name, conv) ==
    IF conv = "camel" THEN name
    ELSE CASE name = "setupComplete" -> "setup_complete"
           [] name = "serverContent" -> "server_content"
           [] name = "modelTurn" -> "model_turn"
           [] name = "inlineData" -> "inline_data"
           [] name = "mimeType" -> "mime_type"
           [] name = "turnComplete" -> "turn_complete"
           [] OTHER -> name

\* the parsed frame, as the keys present in the frame object (top), in its
\* serverContent object (content), in the one part of its modelTurn (part)
\* and in the inlineData of that part (inline); the mimeType of an audio
\* part starts with audio/pcm
Encode(l, conv) ==
    [top |-> IF l = "ack" THEN {Key("setupComplete", conv)}
             ELSE IF l = "error" THEN {"error"}
             ELSE IF l = "empty" THEN {}
             ELSE {Key("serverContent", conv)},
     content |-> (IF HasAudio(l) \/ HasText(l)
                  THEN {Key("modelTurn", conv)} ELSE {})
                 \cup (IF HasTurnComplete(l)
                       THEN {Key("turnComplete", conv)} ELSE {}),
     part |-> (IF HasAudio(l) THEN {Key("inlineData", conv)} ELSE {})
              \cup (IF HasText(l) THEN {"text"} ELSE {}),
     inline |-> IF HasAudio(l) THEN {Key("mimeType", conv), "data"} ELSE {}]

\* sensitivity variant of Has: only the first spelling is read
HasFirst(keys, a, b) == a \in keys

\* x.a || x.b
Has(keys, a, b) == a \in keys \/ b \in keys

\* the loop over the parts, for the one part
PartEffects(raw) ==
    (IF /\ Has(raw.part, "inlineData", "inline_data")
        /\ Has(raw.inline, "mimeType", "mime_type")
     THEN <<"audio">> ELSE <<>>)
    \o (IF "text" \in raw.part THEN <<"text">> ELSE <<>>)

\* the branches ws.onmessage takes on a parsed frame, in order, named as the
\* frames of HandleFrame
Decode(raw) ==
    IF Has(raw.top, "setupComplete", "setup_complete") THEN <<"setupComplete">>
    ELSE IF "error" \in raw.top THEN <<"error">>
    ELSE IF Has(raw.top, "serverContent", "server_content")
         THEN (IF Has(raw.content, "modelTurn", "model_turn")
               THEN PartEffects(raw) ELSE <<>>)
              \o (IF Has(raw.content, "turnComplete", "turn_complete")
                  THEN <<"turnComplete">> ELSE <<>>)
    ELSE <<>>

\* ws.onmessage decodes the frame it was handed
DecodeFrame ==
    /\ calc.fn = "frame"
    /\ calc' = [fn |-> "decode", logical |-> calc.logical, conv |-> calc.conv,
                out |-> Decode(Encode(calc.logical, calc.conv))]
    /\ UNCHANGED <<audioPlayer, currentTime, scheduledTime, sources, played,
                   hookRest>>

\* the capture blocks and the frames a conversion may be handed
Blocks ==
    UNION {[1..n -> Samples] : n \in 0..MaxBlock}

CodecInputs ==
    {[fn |-> "block", input |-> b, rate |-> r] : b \in Blocks, r \in Rates}
    \cup {[fn |-> "frame", logical |-> l, conv |-> c] :
              l \in LogicalFrames, c \in Conventions}

\* the hook as constructed, with one block or one frame handed over
InitCodec ==
    /\ calc \in CodecInputs
    /\ StoreInit
    /\ currentTime = 0
    /\ scheduledTime = 0
    /\ sources = <<>>
    /\ played = NoCall
    /\ traffic = NoTraffic
    /\ audioPlayer = NoPlayer
    /\ isConnected = FALSE
    /\ isConnecting = FALSE
    /\ isListening = FALSE
    /\ isSpeaking = FALSE
    /\ lastTranscript = ""
    /\ error = "null"
    /\ fatalError = FALSE
    /\ wsRef = 0
    /\ micRef = 0
    /\ currentContextRef = NullContext
    /\ connectAttempts = 0
    /\ ws = [s \in Slots |-> FreeSlot]
    /\ mic = [m \in Mics |-> FreeMic]
    /\ blob = NoBlob
    /\ last = Op("init", 0, 0, "none", "none")
    /\ failedRun = 0

\* SpecCodec: the conversions alone, each applied to the input handed over
NextCodec ==
    \/ ResampleBlock
    \/ DecodeFrame

SpecCodec == InitCodec /\ [][NextCodec]_vars

(***************************************************************************)
(* The game store (src/src/store/gameStore.ts).  A Chess object is the     *)
(* line played on it; `game` refers to one of the objects made, and a call *)
(* that is awaiting keeps the object and the values it read when it        *)
(* started.  The evaluation service and the text service are the           *)
(* environment: they answer, some time after they were asked.              *)
(***************************************************************************)
\* everything outside the game store
session ==
    <<isConnected, isConnecting, isListening, isSpeaking, lastTranscript,
      error, fatalError, wsRef, audioPlayer, micRef, currentContextRef,
      connectAttempts, ws, blob, mic, last, failedRun, currentTime,
      scheduledTime, sources, played, calc, traffic>>

\* history: the store action op has run and returned ret; plain tells that
\* a move has been played on a level other than `hard`, which asks for no
\* evaluation and no analysis
Ran(op, ret) ==
    /\ did' = [op |-> op, ret |-> ret,
               plain |-> \/ did.plain
                         \/ /\ op \in {"makeMove", "makeAiMove"}
                            /\ ret \in {"true", "done"}
                            /\ difficulty # "hard"]
    /\ UNCHANGED session

\* a makeAiMove call that is awaiting holds the Chess object g
Referenced(g, calls) ==
    \E c \in 1..MaxAi : calls[c].pc # "idle" /\ calls[c].game = g

\* the Chess objects without g, if neither the store (which holds the
\* object stored) nor a call holds it: such an object is garbage
Drop(objects, g, stored, calls) ==
    IF g # stored /\ ~Referenced(g, calls)
    THEN [objects EXCEPT ![g] = <<>>]
    ELSE objects

\* a place for a Chess object that nothing holds
Unused(g) == g # game /\ ~Referenced(g, aiCalls)

\* new Chess(), stored as `game`
NewChess ==
    /\ \E g \in 1..MaxGames : Unused(g)
    /\ game' = CHOOSE g \in 1..MaxGames : Unused(g)
    /\ chess' = Drop([chess EXCEPT ![game'] = <<>>], game, game', aiCalls)

\* game.undo()
Undo(line) == IF line = <<>> THEN line ELSE SubSeq(line, 1, Len(line) - 1)

\* (playerSide === 'white' && turn === 'w') || (playerSide === 'black' && ...)
IsPlayerTurn ==
    \/ playerSide = "white" /\ turn = "w"
    \/ playerSide = "black" /\ turn = "b"

\* analyzeMoveWithAI for a player move: the flags it derives from the two
\* evaluations, and a comment
AnalyzeMove(evalBefore, evalAfter) ==
    [isBlunder |-> evalBefore - evalAfter >= 2,
     isMistake |-> evalBefore - evalAfter >= 1 /\ evalBefore - evalAfter < 2,
     comment |-> "text"]

\* setDifficulty(level)
SetDifficulty(level) ==
    /\ difficulty' = level
    /\ Ran("setDifficulty", "none")
    /\ UNCHANGED <<chess, game, fen, turn, playerSide, gameOver, isThinking,
                   isAnalyzing, currentEval, moveHistory, aiCalls, tasks>>

\* startGame(side)
StartGame(side) ==
    /\ NewChess
    /\ fen' = FenOf(<<>>)
    /\ playerSide' = side
    /\ turn' = "w"
    /\ gameOver' = FALSE
    /\ currentEval' = 0
    /\ moveHistory' = <<>>
    /\ Ran("startGame", "none")
    /\ UNCHANGED <<difficulty, isThinking, isAnalyzing, aiCalls, tasks>>

\* goToStart()
GoToStart ==
    /\ NewChess
    /\ fen' = FenOf(<<>>)
    /\ turn' = "w"
    /\ gameOver' = FALSE
    /\ isThinking' = FALSE
    /\ currentEval' = 0
    /\ moveHistory' = <<>>
    /\ Ran("goToStart", "none")
    /\ UNCHANGED <<playerSide, difficulty, isAnalyzing, aiCalls, tasks>>

\* resetGame()
ResetGame ==
    /\ NewChess
    /\ fen' = FenOf(<<>>)
    /\ turn' = "w"
    /\ gameOver' = FALSE
    /\ isThinking' = FALSE
    /\ isAnalyzing' = FALSE
    /\ currentEval' = 0
    /\ moveHistory' = <<>>
    /\ Ran("resetGame", "none")
    /\ UNCHANGED <<playerSide, difficulty, aiCalls, tasks>>

\* undoMove()
UndoMove ==
    IF Len(moveHistory) < 2
    THEN /\ Ran("undoMove", "none")
         /\ UNCHANGED <<chess, game, fen, turn, playerSide, difficulty,
                        gameOver, isThinking, isAnalyzing, currentEval,
                        moveHistory, aiCalls, tasks>>
    ELSE LET newHistory == SubSeq(moveHistory, 1, Len(moveHistory) - 2)
         IN /\ chess' = [chess EXCEPT ![game] = Undo(Undo(@))]
            /\ fen' = FenOf(chess'[game])
            /\ turn' = TurnOf(chess'[game])
            /\ moveHistory' = newHistory
            /\ currentEval' = IF newHistory = <<>> THEN 0
                              ELSE newHistory[Len(newHistory)].evaluation
            /\ Ran("undoMove", "done")
            /\ UNCHANGED <<game, playerSide, difficulty, gameOver,
                           isThinking, isAnalyzing, aiCalls, tasks>>

\* makeMove(from, to) with the move m, up to its return; on `hard` it leaves
\* the background task getPositionEval(newFen).then(...) behind (the model
\* follows histories of MaxPly records at most)
MakeMove(m) ==
    IF ~IsPlayerTurn \/ IsGameOver(chess[game])
    THEN /\ Ran("makeMove", "false")
         /\ UNCHANGED <<chess, game, fen, turn, playerSide, difficulty,
                        gameOver, isThinking, isAnalyzing, currentEval,
                        moveHistory, aiCalls, tasks>>
    ELSE /\ Len(moveHistory) < MaxPly
         /\ chess' = [chess EXCEPT ![game] = Append(@, m)]
         /\ fen' = FenOf(chess'[game])
         /\ turn' = TurnOf(chess'[game])
         /\ gameOver' = IsGameOver(chess'[game])
         /\ moveHistory' = Append(moveHistory,
                                  MoveRecord(moveHistory, m, fen',
                                             currentEval, TRUE))
         /\ isAnalyzing' = (difficulty = "hard")
         /\ IF difficulty = "hard"
            THEN /\ \E k \in 1..MaxTasks : tasks[k].pc = "idle"
                 /\ LET k == CHOOSE k \in 1..MaxTasks : tasks[k].pc = "idle"
                    IN tasks' = [tasks EXCEPT ![k] =
                                    [pc |-> "pending", san |-> m,
                                     newFen |-> fen',
                                     evalBefore |-> currentEval]]
            ELSE tasks' = tasks
         /\ Ran("makeMove", "true")
         /\ UNCHANGED <<game, playerSide, difficulty, isThinking,
                        currentEval, aiCalls>>

\* the background task of makeMove after its two awaits (getPositionEval,
\* analyzeMoveWithAI): the last record is rewritten if its san is the move's
TaskDone(k) ==
    /\ tasks[k].pc = "pending"
    /\ LET evalAfter == PositionEval(tasks[k].newFen)
           analysis == AnalyzeMove(tasks[k].evalBefore, evalAfter)
           n == Len(moveHistory)
       IN /\ moveHistory' =
                [i \in 1..n |->
                    IF i = n /\ moveHistory[i].san = tasks[k].san
                    THEN [moveHistory[i] EXCEPT
                             !.evaluation = evalAfter,
                             !.isBlunder = analysis.isBlunder,
                             !.isMistake = analysis.isMistake,
                             !.comment = analysis.comment]
                    ELSE moveHistory[i]]
          /\ currentEval' = evalAfter
    /\ isAnalyzing' = FALSE
    /\ tasks' = [tasks EXCEPT ![k] = IdleTask]
    /\ Ran("analysis", "none")
    /\ UNCHANGED <<chess, game, fen, turn, playerSide, difficulty, gameOver,
                   isThinking, aiCalls>>

\* makeAiMove() up to its first await: on `easy` (and `medium`) there is
\* none and the call runs to its end, on `hard` it awaits fetch
MakeAiMove ==
    IF gameOver \/ isThinking
    THEN /\ Ran("makeAiMove", "skipped")
         /\ UNCHANGED <<chess, game, fen, turn, playerSide, difficulty,
                        gameOver, isThinking, isAnalyzing, currentEval,
                        moveHistory, aiCalls, tasks>>
    ELSE IF IsGameOver(chess[game])
    THEN /\ Ran("makeAiMove", "noMoves")
         /\ UNCHANGED <<chess, game, fen, turn, playerSide, difficulty,
                        gameOver, isThinking, isAnalyzing, currentEval,
                        moveHistory, aiCalls, tasks>>
    ELSE IF difficulty # "hard"
    THEN /\ Len(moveHistory) < MaxPly
         /\ \E m \in Sans :
               /\ chess' = [chess EXCEPT ![game] = Append(@, m)]
               /\ moveHistory' = Append(moveHistory,
                                        MoveRecord(moveHistory, m,
                                                   FenOf(chess'[game]),
                                                   currentEval, FALSE))
         /\ fen' = FenOf(chess'[game])
         /\ turn' = TurnOf(chess'[game])
         /\ gameOver' = IsGameOver(chess'[game])
         /\ Ran("makeAiMove", "done")
         /\ UNCHANGED <<game, playerSide, difficulty, isThinking,
                        isAnalyzing, currentEval, aiCalls, tasks>>
    ELSE /\ Len(moveHistory) < MaxPly
         /\ \E c \in 1..MaxAi : aiCalls[c].pc = "idle"
         /\ LET c == CHOOSE c \in 1..MaxAi : aiCalls[c].pc = "idle"
            IN aiCalls' = [aiCalls EXCEPT ![c] =
                              [IdleAi EXCEPT !.pc = "fetch", !.game = game,
                                             !.moveHistory = moveHistory,
                                             !.currentEval = currentEval]]
         /\ isThinking' = TRUE
         /\ Ran("makeAiMove", "pending")
         /\ UNCHANGED <<chess, game, fen, turn, playerSide, difficulty,
                        gameOver, isAnalyzing, currentEval, moveHistory,
                        tasks>>

\* makeAiMove() on `hard` after `await fetch` and `await response.json()`:
\* the move m is played on the Chess object the call read when it started
\* (a move that is not legal any more throws, and the catch block runs);
\* then the call awaits getPositionEval(newFen)
AiFetched(c, m) ==
    /\ aiCalls[c].pc = "fetch"
    /\ IF IsGameOver(chess[aiCalls[c].game])
       THEN /\ isThinking' = FALSE
            /\ aiCalls' = [aiCalls EXCEPT ![c] = IdleAi]
            /\ Ran("aiFetched", "threw")
            /\ chess' = Drop(chess, aiCalls[c].game, game, aiCalls')
       ELSE /\ chess' = [chess EXCEPT ![aiCalls[c].game] = Append(@, m)]
            /\ aiCalls' = [aiCalls EXCEPT
                  ![c].pc = "eval",
                  ![c].san = m,
                  ![c].newFen = FenOf(chess'[aiCalls[c].game]),
                  ![c].isGameOver = IsGameOver(chess'[aiCalls[c].game])]
            /\ Ran("aiFetched", "pending")
            /\ UNCHANGED isThinking
    /\ UNCHANGED <<game, fen, turn, playerSide, difficulty, gameOver,
                   isAnalyzing, currentEval, moveHistory, tasks>>

\* makeAiMove() on `hard` after `await getPositionEval(newFen)`: the final
\* set, from the values the call has kept and game.turn() as it is now
AiEvaluated(c) ==
    /\ aiCalls[c].pc = "eval"
    /\ LET evalAfter == PositionEval(aiCalls[c].newFen)
       IN /\ currentEval' = evalAfter
          /\ moveHistory' = Append(aiCalls[c].moveHistory,
                                   MoveRecord(aiCalls[c].moveHistory,
                                              aiCalls[c].san,
                                              aiCalls[c].newFen,
                                              evalAfter, FALSE))
    /\ fen' = aiCalls[c].newFen
    /\ turn' = TurnOf(chess[aiCalls[c].game])
    /\ gameOver' = aiCalls[c].isGameOver
    /\ isThinking' = FALSE
    /\ aiCalls' = [aiCalls EXCEPT ![c] = IdleAi]
    /\ chess' = Drop(chess, aiCalls[c].game, game, aiCalls')
    /\ Ran("makeAiMove", "done")
    /\ UNCHANGED <<game, playerSide, difficulty, isAnalyzing, tasks>>

\* SpecStore: every action of the store that writes the position, in any
\* order, with the calls that are awaiting; the level chosen is `hard`, the
\* one whose makeAiMove awaits
NextStore ==
    \/ \E level \in {"hard"} : SetDifficulty(level)
    \/ \E side \in Sides : StartGame(side)
    \/ GoToStart
    \/ ResetGame
    \/ UndoMove
    \/ \E m \in Sans : MakeMove(m)
    \/ \E k \in 1..MaxTasks : TaskDone(k)
    \/ MakeAiMove
    \/ \E c \in 1..MaxAi, m \in Sans : AiFetched(c, m)
    \/ \E c \in 1..MaxAi : AiEvaluated(c)

SpecStore == Init /\ [][NextStore]_vars

\* SpecAnalysis: one game played from the store as it is built, the moves
\* of the player and of the computer with the calls that are awaiting
NextAnalysis ==
    \/ \E level \in {"easy", "hard"} : SetDifficulty(level)
    \/ \E m \in Sans : MakeMove(m)
    \/ \E k \in 1..MaxTasks : TaskDone(k)
    \/ MakeAiMove
    \/ \E c \in 1..MaxAi, m \in Sans : AiFetched(c, m)
    \/ \E c \in 1..MaxAi : AiEvaluated(c)

SpecAnalysis == Init /\ [][NextAnalysis]_vars

(***************************************************************************)
(* The properties of the connection controller                            *)
(***************************************************************************)
\* the sockets that are handshaking or open
LiveTransports == {s \in Slots : ws[s].st \in {"CONNECTING", "OPEN"}}

\* the last step was a close event (alone, or right after the error event)
CloseEvent == last.op \in {"close", "wsError"}

\* C1: a connect() call that follows five consecutive failed connect() calls
\* fails at once, opens no transport, and leaves the session Fatal.
C1_SixthCallFatal ==
    last.op = "connect" /\ failedRun = MAX_ATTEMPTS
        => fatalError /\ last.ret = "false" /\ last.slot = 0

\* C2: Fatal is never cleared: a step taken in a Fatal session, whichever
\* operation or event it is, ends in a Fatal session.
C2_FatalIsPermanent == last.wasFatal => fatalError

C2_Witness ==
    /\ last.op = "close"
    /\ last.code = 1000
    /\ last.wasFatal
    /\ fatalError

\* C3: the attempt counter goes up only in connect(), by one, goes down only
\* on the handshake acknowledgment, to zero, and a connect() call that
\* returns success leaves no increment behind.
C3_CounterSteps ==
    /\ connectAttempts > last.pre
           => last.op = "connect" /\ connectAttempts = last.pre + 1
    /\ connectAttempts < last.pre
           => last.op = "setupComplete" /\ connectAttempts = 0
    /\ last.op = "setupComplete" /\ last.ret = "true" => connectAttempts = 0

C3_Witness ==
    /\ last.op = "connect"
    /\ last.pre = 2
    /\ connectAttempts = 3
    /\ error = "null"

\* C4: the handshake acknowledgment leaves the attempt counter at 0, whatever
\* the counter was before.
C4_AckResetsCounter == last.op = "setupComplete" => connectAttempts = 0

C4_Witness ==
    /\ last.op = "setupComplete"
    /\ last.pre = MAX_ATTEMPTS
    /\ last.ret = "true"
    /\ connectAttempts = 0

\* C5: at most one transport is handshaking or open at any time.
C5_OneLiveTransport == Cardinality(LiveTransports) <= 1

\* C6: a connect() call made while the session is connecting, connected or
\* Fatal returns false, opens no transport and changes neither the attempt
\* counter, nor the flags, nor the error.
C6_BlockedConnectIsNoOp ==
    [][ (isConnecting \/ isConnected \/ fatalError) /\ last'.op = "connect"
            => /\ last'.ret = "false"
               /\ last'.slot = 0
               /\ UNCHANGED <<flags, error, fatalError, connectAttempts, ws,
                              wsRef, audioPlayer, lastTranscript, micRef,
                              mic, blob, currentContextRef>> ]_vars

C6_Witness ==
    /\ last.op = "connect"
    /\ last.ret = "false"
    /\ isConnecting
    /\ ~fatalError
    /\ connectAttempts = last.pre
    /\ \E s \in Slots : ws[s].st = "OPEN"

\* C7: sendGameEvent called while the session is not connected sends no
\* frame.
C7_NoFrameUnlessActive ==
    last.op = "sendGameEvent" /\ ~isConnected => last.out = "none"

\* C8: once no transport is left (no call is in flight, every socket is
\* closed), none of isListening, isSpeaking, isConnecting is true.
C8_NoFlagStuck ==
    (\A s \in Slots : ws[s].st \in {"free", "CLOSED"})
        => ~isListening /\ ~isSpeaking /\ ~isConnecting

\* the codes C9 and C10 call fatal: the list, and the application range
ListedFatal == {1002, 1003, 1007, 1008, 1009, 1010, 1011, 1015}

ApplicationRange == 4000..4999

\* C9 as stated: a close event with a fatal code leaves fatalError true, one
\* with any other code leaves fatalError false and isConnecting false.
C9_AsStated ==
    CloseEvent =>
        IF last.code \in ListedFatal \cup ApplicationRange
        THEN fatalError
        ELSE ~fatalError /\ ~isConnecting

\* C9: a close event with a fatal code leaves fatalError true; one with any
\* other code leaves fatalError as it was and isConnecting false.
C9_CloseSetsFlags ==
    CloseEvent =>
        IF last.code \in ListedFatal \cup ApplicationRange
        THEN fatalError
        ELSE fatalError = last.wasFatal /\ ~isConnecting

C9_Witness ==
    /\ last.op = "close"
    /\ last.code = 1006
    /\ last.wasFatal
    /\ fatalError
    /\ ~isConnecting

C11_ErrorFrameCleansUp ==
    last.op = "errorFrame" =>
        /\ fatalError
        /\ error = "Server error"
        /\ ws[last.slot].st \notin {"CONNECTING", "OPEN"}
        /\ ws[last.slot].resolved
        /\ last.ret # "true"
        /\ ~isConnected /\ ~isConnecting /\ ~isListening /\ ~isSpeaking
        /\ ~audioPlayer.isPlaying
        /\ micRef = 0
        /\ \A m \in Mics : ~mic[m].stream

\* C12: a malformed frame, including one whose later part is malformed after
\* a valid part, changes no flag, transcript, error, fatal flag, counter or
\* socket.
C12_MalformedIsDiscarded ==
    [][ last'.op \in {"malformed", "malformedPart"}
            => UNCHANGED <<flags, lastTranscript, error, fatalError,
                           connectAttempts, ws, wsRef>> ]_vars


\* C13: when the handshake timeout or a transport error ends a connect()
\* call that was still waiting, the call returns false, the session is
\* neither Fatal, nor connecting, nor connected, and the attempt counter is
\* what it was.
C13_TransientFailure ==
    last.op \in {"timeout", "wsError"} /\ last.ret = "false"
        => /\ ~fatalError
           /\ ~isConnecting
           /\ ~isConnected
           /\ connectAttempts = last.pre

\* what disconnect() is to leave behind: the four flags false, no socket and
\* no capture referenced, no socket handshaking or open, the player stopped,
\* no capture object holding a microphone stream
Disconnected ==
    /\ ~isConnected /\ ~isConnecting /\ ~isListening /\ ~isSpeaking
    /\ wsRef = 0
    /\ micRef = 0
    /\ LiveTransports = {}
    /\ ~audioPlayer.isPlaying
    /\ \A m \in Mics : ~mic[m].stream

\* C14: from every state disconnect() leaves the session Disconnected, and a
\* second disconnect() right after the first changes nothing.
C14_DisconnectIdempotent ==
    [][ last'.op = "disconnect"
            => /\ Disconnected'
               /\ last.op = "disconnect"
                      => UNCHANGED <<flags, lastTranscript, error, fatalError,
                                     wsRef, audioPlayer, micRef,
                                     currentContextRef, connectAttempts, ws,
                                     blob, mic>> ]_vars

\* C18: stopListening() in a session that never started a capture changes
\* nothing: no flag, no socket, no player, no capture, no counter.
C18_StopWithoutStartIsNoOp ==
    [][ (\A m \in Mics : mic[m] = FreeMic) /\ last'.op = "stopListening"
            => UNCHANGED <<flags, lastTranscript, error, fatalError, wsRef,
                           audioPlayer, micRef, currentContextRef,
                           connectAttempts, ws, blob, mic>> ]_vars

C18_Witness ==
    /\ last.op = "stopListening"
    /\ \A m \in Mics : mic[m] = FreeMic
    /\ isConnected
    /\ isSpeaking
    /\ audioPlayer.isPlaying

\* C19: when the microphone is refused, startListening returns false,
\* isListening is false, and the session holds no capture object, stream or
\* chunk callback.
C19_DeniedLeavesNothing ==
    last.op = "micDenied"
        => /\ last.ret = "false"
           /\ ~isListening
           /\ micRef = 0
           /\ \A m \in Mics : ~mic[m].stream /\ ~mic[m].cb


\* the last three buffers scheduled start one after the other from t0
BackToBackFrom(t0) ==
    LET n == Len(sources)
        d1 == sources[n - 2].duration
        d2 == sources[n - 1].duration
    IN  /\ sources[n - 2].start = t0
        /\ sources[n - 1].start = t0 + d1
        /\ sources[n].start = t0 + d1 + d2

\* C15 as stated: three buffers played in a row with nothing in between,
\* the clock included, start at t0,
\* t0 + d1, t0 + d1 + d2, t0 being the cursor at the first call.
C15_AsStated ==
    played.op = "playPCM" /\ played.run = 3 => BackToBackFrom(played.cursor0)

\* C15: three buffers played in a row with nothing in between, the clock
\* included, start at t0, t0 + d1, t0 + d1 + d2, t0 being the later of the
\* cursor and the clock at the first call.
C15_Gapless ==
    played.op = "playPCM" /\ played.run = 3
        => BackToBackFrom(IF played.cursor0 > played.now0 THEN played.cursor0
                          ELSE played.now0)

C15_Witness ==
    /\ played.op = "playPCM"
    /\ played.run = 3
    /\ played.now0 > played.cursor0
    /\ sources[Len(sources) - 2].duration = 2
    /\ sources[Len(sources) - 1].duration = 1

\* C16: the first playPCM after an interrupt() schedules its buffer, at the
\* clock's current value.
C16_InterruptThenPlay ==
    played.op = "playPCM" /\ played.fresh
        => played.scheduled /\ sources[Len(sources)].start = played.now


\* C17: a frame decodes to the same effects whichever of the two spellings
\* its keys use.
C17_SameInEitherConvention ==
    calc.fn = "decode"
        => \A conv \in Conventions :
               Decode(Encode(calc.logical, conv)) = calc.out

C17_Witness ==
    /\ calc.fn = "decode"
    /\ calc.conv = "snake"
    /\ calc.logical = "audioTurnComplete"
    /\ calc.out = <<"audio", "turnComplete">>

\* C20: a block of L samples at 48000 Hz resamples to L div 3 samples, the
\* i-th of them (from 0) converted from input sample 3 * i.
C20_Decimation ==
    calc.fn = "resample" /\ calc.rate = 48000
        => /\ Len(calc.out) = Len(calc.input) \div 3
           /\ \A i \in 0..(Len(calc.out) - 1) :
                  calc.out[i + 1] = ToInt16(calc.input[3 * i + 1])

C20_Witness ==
    /\ calc.fn = "resample"
    /\ calc.rate = 48000
    /\ Len(calc.input) = 6
    /\ calc.input[4] = -2
    /\ calc.out = <<32767, -32768>>

\* C23: a handshake acknowledgment for a connect() call that has not
\* returned yet leaves isConnected true and isConnecting false and makes that
\* call return true; no connect() call returns true in any other step.
C23_SuccessOnlyOnAck ==
    [][ /\ last'.op = "setupComplete" /\ ~ws[last'.slot].resolved
            => /\ last'.ret = "true"
               /\ isConnected'
               /\ ~isConnecting'
               /\ ws'[last'.slot].resolved
        /\ last'.ret = "true" /\ last'.op # "micGranted"
            => last'.op = "setupComplete" /\ ~ws[last'.slot].resolved ]_vars

C23_Witness ==
    /\ last.op = "setupComplete"
    /\ last.ret = "true"
    /\ last.pre = 3
    /\ isConnected
    /\ ~isConnecting
    /\ ws[last.slot].st = "OPEN"

\* C24: the attempt counter never exceeds 6, and no more than 5 WebSockets
\* are made from the creation of the session, or from one handled handshake
\* acknowledgment, to the next.
C24_StormBounded ==
    /\ connectAttempts <= MAX_ATTEMPTS + 1
    /\ traffic.opened <= MAX_ATTEMPTS

\* C25: a handshake acknowledgment handled while the session is not
\* connecting changes nothing: no flag, and not the attempt counter, the
\* error, the fatal flag or a connect() call's result.
C25_AckOnlyWhileConnecting ==
    [][ last'.op = "setupComplete" /\ ~isConnecting
            => UNCHANGED <<flags, connectAttempts, error, fatalError, ws,
                           wsRef>> ]_vars

\* C26 as stated: no step lowers the playback cursor.
C26_AsStated == [][scheduledTime' >= scheduledTime]_vars

\* C26: playPCM and the clock never lower the playback cursor; stop(),
\* interrupt() and resume() set it to the clock's current value.
C26_LoweredOnlyByRebase ==
    [][ /\ played'.op \in {"playPCM", "tick"}
            => scheduledTime' >= scheduledTime
        /\ played'.op \in {"stop", "interrupt", "resumeDone"}
            => scheduledTime' = currentTime ]_vars

C26_Witness ==
    /\ played.op = "playPCM"
    /\ played.scheduled
    /\ played.fresh
    /\ Len(sources) = 2
    /\ sources[1].start + sources[1].duration > played.now
    /\ played.cursor = played.now
    /\ scheduledTime = played.now + 2

\* the buffer handed to source.start last begins when every earlier one has
\* ended
LastAfterEarlier ==
    \A i \in 1..(Len(sources) - 1) :
        sources[i].start + sources[i].duration <= sources[Len(sources)].start

\* C27: when interrupt() has run, no buffer scheduled before it is still to
\* play or playing, and the first buffer played after it overlaps none of
\* them.
C27_InterruptDiscardsBacklog ==
    /\ played.op = "interrupt"
           => \A i \in 1..Len(sources) :
                  sources[i].start + sources[i].duration <= currentTime
    /\ played.op = "playPCM" /\ played.fresh /\ played.scheduled
           => LastAfterEarlier

(***************************************************************************)
(* The properties of the context and of the outbound frames                *)
(***************************************************************************)
\* C21: sendChessContext sends no frame and changes nothing but the stored
\* context: no flag, transcript, error, fatal flag, counter, socket, player,
\* playback cursor or capture.
C21_ContextWriteIsLocal ==
    [][ last'.op = "sendChessContext"
            => /\ last'.out = "none"
               /\ UNCHANGED <<flags, lastTranscript, error, fatalError, wsRef,
                              audioPlayer, micRef, connectAttempts, ws, blob,
                              mic, scheduledTime>> ]_vars

C21_Witness ==
    /\ last.op = "sendChessContext"
    /\ currentContextRef \in Contexts
    /\ isConnected
    /\ isSpeaking
    /\ wsRef # 0
    /\ ws[wsRef].st = "OPEN"

\* C22: an event passed to sendGameEvent while isConnected was false and not
\* handed to the socket in that call is never handed to a socket later, and
\* a client_content frame leaves only in a sendGameEvent step.
C22_DroppedNeverSent ==
    /\ traffic.dropped \cap traffic.sent = {}
    /\ last.out = "client_content" => last.op = "sendGameEvent"

C22_Witness ==
    /\ traffic.dropped = {1}
    /\ traffic.sent = {2}
    /\ last.op = "sendGameEvent"
    /\ last.out = "client_content"
    /\ isConnected

\* C28: the prompt of a frame sendGameEvent sends is the template of its
\* event filled from the arguments of the last sendChessContext call, and
\* from nothing else.
C28_PromptFromLatestContext ==
    last.op = "sendGameEvent" /\ last.out = "client_content"
    /\ traffic.pushed # NullContext
        => traffic.prompt = Prompt(traffic.event, traffic.pushed)

C28_Witness ==
    /\ last.op = "sendGameEvent"
    /\ last.out = "client_content"
    /\ traffic.event = "game_start"
    /\ traffic.pushed = [fen |-> "fen2", playerSide |-> "black",
                         childName |-> "Kid"]
    /\ traffic.prompt = <<"game_start", "Kid", "as black">>

\* the number of setup frames among the frames q
RECURSIVE Setups(_)
Setups(q) ==
    IF q = <<>> THEN 0
    ELSE (IF Head(q) = "setup" THEN 1 ELSE 0) + Setups(Tail(q))

\* C29: on every WebSocket the setup frame is sent in the step that opens
\* it, before any other frame, and it is sent once.
C29_SetupFirstAndOnce ==
    \A s \in Slots :
        /\ ws[s].st = "OPEN" => traffic.wire[s] # <<>>
        /\ traffic.wire[s] # <<>>
               => /\ Head(traffic.wire[s]) = "setup"
                  /\ Setups(traffic.wire[s]) = 1

C29_Witness ==
    \E s \in Slots :
        /\ ws[s].st = "OPEN"
        /\ traffic.wire[s] = <<"setup", "client_content", "realtime_input">>

(***************************************************************************)
(* The properties of the capture                                           *)
(***************************************************************************)
\* C30: startListening called while a capture object holds a microphone
\* stream, or while an earlier call still awaits the microphone, returns
\* false, makes no capture object and leaves the referenced one in place.
C30_SecondStartFails ==
    [][ (/\ last'.op = "startListening"
         /\ \E m \in Mics : (mic[m].stream \/ mic[m].ph = "await"))
            => /\ last'.ret = "false"
               /\ UNCHANGED <<mic, micRef>> ]_vars

(***************************************************************************)
(* The properties of overlapping transports and of the session's flags     *)
(***************************************************************************)
\* C31: a close event, an error event, a timeout or a frame of a socket that
\* is no longer the one wsRef holds leaves the socket wsRef holds, wsRef
\* itself and the flags isConnected and isConnecting as they were.
C31_OldTransportIsInert ==
    [][ (/\ last'.op \in {"close", "wsError", "timeout", "setupComplete",
                           "errorFrame"}
         /\ wsRef # 0
         /\ wsRef # last'.slot)
            => /\ wsRef' = wsRef
               /\ ws'[wsRef] = ws[wsRef]
               /\ UNCHANGED <<isConnected, isConnecting>> ]_vars

\* C32: while isConnected is true, wsRef holds a socket and that socket is
\* open.
C32_ConnectedHasOpenTransport ==
    isConnected => wsRef # 0 /\ ws[wsRef].st = "OPEN"

\* C33: while isListening is true, isConnected is true and micRef holds the
\* capture that is running; and a capture that is running is always the one
\* micRef holds, so that stopListening or fullCleanup stops it.
C33_ListeningHasItsCapture ==
    /\ isListening => /\ isConnected
                      /\ micRef # 0
                      /\ mic[micRef].stream
    /\ \A m \in Mics : mic[m].stream => micRef = m

\* C34: the promise of a connect() call that made its WebSocket is settled in
\* the end, and it is settled once: a step gives the call its result only
\* while the promise is unsettled, that step settles it, and a settled promise
\* stays settled as long as its socket is the call's.
C34_ReturnsOnce ==
    /\ [][ \A s \in Slots :
              /\ (ws[s].resolved /\ ~ws'[s].resolved) => ws'[s].st = "init"
              /\ ( /\ last'.slot = s
                   /\ last'.op \in {"setupComplete", "errorFrame", "wsError",
                                    "close", "timeout"}
                   /\ last'.ret \in {"true", "false"} )
                     => ~ws[s].resolved /\ ws'[s].resolved ]_vars
    /\ \A s \in Slots : (ws[s].st = "CONNECTING") ~> ws[s].resolved

C34_Witness ==
    /\ last.op = "close"
    /\ last.ret = "none"
    /\ ws[last.slot].resolved
    /\ connectAttempts = 0

\* C35: when the timer of connect() fires after the handshake acknowledgment
\* has settled the promise and the session is connected, the socket stays
\* open, isConnected stays true and error is not set.
C35_LateTimeoutIsInert ==
    [][ (/\ last'.op = "timeout"
         /\ ws[last'.slot].resolved
         /\ isConnected
         /\ wsRef = last'.slot
         /\ ws[wsRef].st = "OPEN")
            => /\ ws'[wsRef].st = "OPEN"
               /\ isConnected'
               /\ UNCHANGED <<wsRef, error, isConnecting, fatalError>> ]_vars

C35_Witness ==
    /\ last.op = "timeout"
    /\ last.ret = "none"
    /\ isConnected
    /\ wsRef = last.slot
    /\ ws[wsRef].st = "OPEN"
    /\ error = "null"

\* C36: isConnected and isConnecting are never both true, and while
\* fatalError is true both are false.
C36_FlagsExclusive ==
    /\ ~(isConnected /\ isConnecting)
    /\ fatalError => ~isConnected /\ ~isConnecting

C38_PositionMatchesGame ==
    (\A c \in 1..MaxAi : aiCalls[c].pc # "eval")
        => /\ fen = FenOf(chess[game])
           /\ turn = TurnOf(chess[game])

\* C39: when every move was played on `hard` and neither a background task
\* of makeMove nor a makeAiMove call is awaiting, moveHistory holds one
\* record for each move played on the Chess object stored, in the order
\* played, a player's record carries the evaluation of its position and a
\* comment, and currentEval is the evaluation of the position stored.
C39_HistoryKeepsAnalysis ==
    ( /\ ~did.plain
      /\ \A k \in 1..MaxTasks : tasks[k].pc = "idle"
      /\ \A c \in 1..MaxAi : aiCalls[c].pc = "idle" )
        => /\ Len(moveHistory) = Len(chess[game])
           /\ \A i \in 1..Len(moveHistory) :
                 /\ i <= Len(chess[game])
                 /\ moveHistory[i].san = chess[game][i]
                 /\ moveHistory[i].fen = FenOf(SubSeq(chess[game], 1, i))
                 /\ moveHistory[i].isPlayerMove
                       => /\ moveHistory[i].comment # "null"
                          /\ moveHistory[i].evaluation
                                = PositionEval(moveHistory[i].fen)
           /\ currentEval = PositionEval(FenOf(chess[game]))

=============================================================================
